---- MODULE Spec2Model ----
(***************************************************************************)
(* Model of the retrieval pipeline of capillary-chatbot:                   *)
(*   scripts/chunking.py        chunk_text                                 *)
(*   scripts/dataframe_utils.py create_dataframe                           *)
(*   scripts/embedding_index.py build_faiss_index                          *)
(*   app.py                     artifact loading, retrieve_docs, chat      *)
(* Python strings are sequences of one-character strings, so that          *)
(* re.split, str.join and str.strip are computed character by character.   *)
(***************************************************************************)
EXTENDS Integers, Sequences, FiniteSets, TLC

\* ------------------------------------------------------------- bounds
\* longest generated input text of chunk_text, in characters
MaxLen == 6
\* chunk_size is drawn from 1..MaxChunkSize, overlap from 0..MaxOverlap
MaxChunkSize == 3
MaxOverlap == 3
\* a run of chunk_text that does not terminate is followed until it has
\* emitted MaxEmit chunks or moved start MaxBack sentences below zero
MaxEmit == 6
MaxBack == 3
\* longest chunk list handed to the two build scripts
MaxChunks == 2

VARIABLES
  \* ---- chunk_text (scripts/chunking.py)
  text,        \* argument text
  chunk_size,  \* argument chunk_size
  overlap,     \* argument overlap
  sentences,   \* local: the re.split result
  chunks,      \* local: the list being built, returned at the end
  start,       \* local: window start
  pc,          \* position in chunk_text: "call", "loop", "done"
  \* ---- the build scripts and the files they write
  dfChunks,    \* dataframe_utils.py __main__: its local chunks
  idxChunks,   \* embedding_index.py __main__: its local chunks when it
               \* last wrote the index file
  csvFile,     \* metadata/capillary_chunks_df.csv: <<>> or <<rows>>
  mapFile,     \* metadata/capillary_chunks_id_mapping.json: <<>> or <<object>>
  faissFile,   \* faiss_index/capillary_chunks_index.faiss: <<>> or <<vectors>>
  \* ---- app.py
  appPc,       \* "init", "serving", or "crashed" (module import raised)
  index,       \* module global index: the vectors, position i at index[i+1]
  df,          \* module global df: chunk id -> text
  id_mapping,  \* module global id_mapping: stringified position -> chunk id
  req          \* per request thread: the locals of chat / retrieve_docs

chunkVars == <<text, chunk_size, overlap, sentences, chunks, start, pc>>
buildVars == <<dfChunks, idxChunks, csvFile, mapFile, faissFile>>
appVars == <<appPc, index, df, id_mapping, req>>
vars == <<chunkVars, buildVars, appVars>>

\* ------------------------------------------------------------ strings
\* the characters [.!?] of the split pattern
Punct == {".", "!", "?"}
\* the characters matched by \s and removed by str.strip()
Whitespace == {" ", "\n", "\t"}

Max(a, b) == IF a >= b THEN a ELSE b
Min(a, b) == IF a <= b THEN a ELSE b

\* first index >= i of s that holds no whitespace (Len(s)+1 when none): the
\* end of the greedy \s+ match starting at i
RECURSIVE SkipWs(_, _)
SkipWs(s, i) ==
  IF i > Len(s) \/ s[i] \notin Whitespace THEN i ELSE SkipWs(s, i + 1)

\* re.split(r'(?<=[.!?])\s+', s) continued from index i with the piece cur
\* collected so far: a match starts at a whitespace character whose
\* predecessor is in [.!?] and runs over all the whitespace that follows
RECURSIVE SplitFrom(_, _, _)
SplitFrom(s, i, cur) ==
  IF i > Len(s) THEN <<cur>>
  ELSE IF s[i] \in Whitespace /\ i > 1 /\ s[i - 1] \in Punct
       THEN <<cur>> \o SplitFrom(s, SkipWs(s, i), <<>>)
       ELSE SplitFrom(s, i + 1, Append(cur, s[i]))

ReSplit(s) == SplitFrom(s, 1, <<>>)

\* Python's seq[lo:hi] for integers lo, hi (negative ones count from the end)
PySlice(seq, lo, hi) ==
  LET n == Len(seq)
      a == IF lo < 0 THEN Max(n + lo, 0) ELSE Min(lo, n)
      b == IF hi < 0 THEN Max(n + hi, 0) ELSE Min(hi, n)
  IN  IF a >= b THEN <<>> ELSE SubSeq(seq, a + 1, b)

\* sep.join(parts)
RECURSIVE Join(_, _)
Join(parts, sep) ==
  IF parts = <<>> THEN <<>>
  ELSE IF Len(parts) = 1 THEN parts[1]
  ELSE parts[1] \o sep \o Join(Tail(parts), sep)

RECURSIVE LStrip(_)
LStrip(s) ==
  IF s # <<>> /\ s[1] \in Whitespace THEN LStrip(Tail(s)) ELSE s

RECURSIVE RStrip(_)
RStrip(s) ==
  IF s # <<>> /\ s[Len(s)] \in Whitespace
  THEN RStrip(SubSeq(s, 1, Len(s) - 1)) ELSE s

\* s.strip()
Strip(s) == RStrip(LStrip(s))

\* ------------------------------------------------ chunking.py: chunk_text
\* a window that takes one sentence too many
WindowTextWide(sents, from, to) ==
  Strip(Join(PySlice(sents, from, to + 1), <<" ">>))

\* the text of one window: " ".join(sentences[start:end]).strip()
WindowText(sents, from, to) == Strip(Join(PySlice(sents, from, to), <<" ">>))

\* an advance that is one sentence too long
AdvanceSkip(size, ov) == size - ov + 1

\* the step of the window start after one iteration
Advance(size, ov) == size - ov

\* a loop that stops one sentence early
LoopCondEarly(st, sents) == st + 1 < Len(sents)

\* the loop condition
LoopCond(st, sents) == st < Len(sents)

\* the characters input texts are generated from
Alphabet == {"a", ".", " "}

RECURSIVE SeqsUpTo(_, _)
SeqsUpTo(S, n) ==
  IF n = 0 THEN {<<>>}
  ELSE LET shorter == SeqsUpTo(S, n - 1)
       IN  shorter \cup {Append(s, c) : s \in {t \in shorter : Len(t) = n - 1}, c \in S}

\* ------------------------------------------------------------ vectors
\* Embedding vectors are pairs of integers.  The embedding model is an
\* external collaborator; Embed is a fixed stand-in for it whose vectors lie
\* on the axes, so that the L2 norm and the division by it are exact.
Embed(t) ==
  CASE t = <<"d">> -> <<2, 0>>
    [] t = <<"e">> -> <<0, 3>>
    [] t = <<"q">> -> <<4, 0>>
    [] t = <<"r">> -> <<0, -2>>
    [] OTHER -> <<0, 1>>

Abs(x) == IF x < 0 THEN -x ELSE x
Dot(u, v) == u[1] * v[1] + u[2] * v[2]
\* np.linalg.norm
Norm(v) == CHOOSE n \in 0..(Abs(v[1]) + Abs(v[2])) : n * n = Dot(v, v)
\* v / np.linalg.norm(v)
Normalize(v) == <<v[1] \div Norm(v), v[2] \div Norm(v)>>

\* model.encode(texts): one vector per text, in order
EncodeAll(texts) == [k \in 1..Len(texts) |-> Embed(texts[k])]

\* an option value: <<>> for nothing (a missing file, Python's None)
None == <<>>
Some(x) == <<x>>

\* ------------------------------- dataframe_utils.py: create_dataframe
\* a data frame that numbers its rows from 1
WriteCsvOneBased(chunkList) ==
  [k \in 1..Len(chunkList) |-> [id |-> k, text |-> chunkList[k]]]

\* pd.DataFrame({"text": chunks}).to_csv(path, index=True): the rows, the
\* RangeIndex 0..n-1 as the id column
WriteCsv(chunkList) ==
  [k \in 1..Len(chunkList) |-> [id |-> k - 1, text |-> chunkList[k]]]

\* {i: i for i in range(n)}
IdentityMapping(n) == [i \in 0..(n - 1) |-> i]

\* a dump whose keys are one too small, "-1" among them
DumpJsonShifted(m) ==
  [s \in {ToString(i - 1) : i \in DOMAIN m} |->
     m[CHOOSE i \in DOMAIN m : ToString(i - 1) = s]]

\* json.dump of a dict with integer keys: the keys are written as strings
DumpJson(m) ==
  [s \in {ToString(i) : i \in DOMAIN m} |->
     m[CHOOSE i \in DOMAIN m : ToString(i) = s]]

\* pd.read_csv(path, index_col=0): chunk id -> text
ReadCsv(rows) ==
  [i \in {rows[k].id : k \in 1..Len(rows)} |->
     rows[CHOOSE k \in 1..Len(rows) : rows[k].id = i].text]

\* ----------------------------- embedding_index.py: build_faiss_index
\* lines 28-36: encode, normalise, add to a fresh IndexFlatIP; the vector
\* added i-th is at position i-1
BuildFaissIndex(chunkList) ==
  LET embeddings == EncodeAll(chunkList)
  IN  [k \in 1..Len(chunkList) |-> Normalize(embeddings[k])]

Docs == {<<"d">>, <<"e">>}
ChunkLists == SeqsUpTo(Docs, MaxChunks)

BuildIdle ==
  /\ dfChunks = <<>>
  /\ idxChunks = <<>>
  /\ csvFile = None
  /\ mapFile = None
  /\ faissFile = None

\* dataframe_utils.py __main__: chunk the data, write the table and the
\* mapping.  The build scripts are run before the service is started.
RunDataframeUtils(chunkList) ==
  /\ appPc = "init"
  /\ dfChunks' = chunkList
  /\ csvFile' = Some(WriteCsv(chunkList))
  /\ mapFile' = Some(DumpJson(IdentityMapping(Len(chunkList))))
  /\ UNCHANGED <<idxChunks, faissFile, chunkVars, appVars>>

\* embedding_index.py __main__: chunk the data, build and write the index.
\* For an empty chunk list encode returns an array of one dimension and the
\* normalisation over axis 1 raises: nothing is written.
RunEmbeddingIndex(chunkList) ==
  /\ appPc = "init"
  /\ IF chunkList = <<>>
     THEN UNCHANGED <<idxChunks, faissFile>>
     ELSE /\ idxChunks' = chunkList
          /\ faissFile' = Some(BuildFaissIndex(chunkList))
  /\ UNCHANGED <<dfChunks, csvFile, mapFile, chunkVars, appVars>>

\* ------------------------------------------------------------- app.py
Threads == {"t1", "t2"}
\* chat calls retrieve_docs(user_input, top_k=5)
TopK == 5
\* the bodies of POST /chat: the "message" field
Messages == {<<>>, <<"q">>, <<"r", " ">>}
Queries == {<<"q">>, <<"r">>}
\* the top_k values of direct calls of retrieve_docs: below, at and (with
\* TopK) above the sizes of the index
TopKs == {1, 2}
\* what query_mistral returns: the model's text or one of its two fallbacks
Replies == {"model text", "No response from model.", "Error connecting to model."}

IdleReq ==
  [pc |-> "idle", kind |-> "none", query |-> <<>>, top_k |-> 0,
   query_vec |-> <<>>, I |-> <<>>, results |-> <<>>, context |-> <<>>,
   raised |-> "none", response |-> "none"]

AppIdle ==
  /\ appPc = "init"
  /\ index = <<>>
  /\ df = <<>>
  /\ id_mapping = <<>>
  /\ req = [t \in Threads |-> IdleReq]

\* lines 26-40: the module-level loading.  A missing file makes the import
\* raise; nothing else is checked.
StartApp ==
  /\ appPc = "init"
  /\ IF faissFile = None \/ csvFile = None \/ mapFile = None
     THEN /\ appPc' = "crashed"
          /\ UNCHANGED <<index, df, id_mapping>>
     ELSE /\ appPc' = "serving"
          /\ index' = faissFile[1]
          /\ df' = ReadCsv(csvFile[1])
          /\ id_mapping' = mapFile[1]
  /\ UNCHANGED <<req, chunkVars, buildVars>>

\* position j is ranked before position i for the query vector q
Better(idx, q, j, i) ==
  \/ Dot(idx[j + 1], q) > Dot(idx[i + 1], q)
  \/ Dot(idx[j + 1], q) = Dot(idx[i + 1], q) /\ j < i

\* index.search(query_vec, k)[1][0] of an IndexFlatIP: the k positions of
\* highest inner product, best first (ties by position), filled up with -1
\* when the index holds fewer than k vectors
Search(idx, q, k) ==
  LET n == Len(idx)
  IN  [r \in 1..k |->
         IF r <= n
         THEN CHOOSE i \in 0..(n - 1) :
                Cardinality({j \in 0..(n - 1) : Better(idx, q, j, i)}) = r - 1
         ELSE -1]

\* a filter that lets every position through
InMappingAlways(idx, mapping) == TRUE

\* the filter of the comprehension: str(idx) in id_mapping
InMapping(idx, mapping) == ToString(idx) \in DOMAIN mapping

\* id_mapping.get(str(idx))
Get(mapping, idx) ==
  IF ToString(idx) \in DOMAIN mapping THEN Some(mapping[ToString(idx)]) ELSE None

\* line 72 raises: int(None) for a position that passed the filter without
\* being in the mapping, or df.loc[id] for an id the table lacks
LookupRaises(I, mapping, table) ==
  \E j \in 1..Len(I) :
    /\ InMapping(I[j], mapping)
    /\ \/ Get(mapping, I[j]) = None
       \/ Get(mapping, I[j])[1] \notin DOMAIN table

\* line 72: [df.loc[int(id_mapping.get(str(idx)))]["text"]
\*           for idx in I[0] if str(idx) in id_mapping]
RECURSIVE ResolveTexts(_, _, _)
ResolveTexts(I, mapping, table) ==
  IF I = <<>> THEN <<>>
  ELSE IF InMapping(I[1], mapping)
       THEN <<table[Get(mapping, I[1])[1]]>> \o ResolveTexts(Tail(I), mapping, table)
       ELSE ResolveTexts(Tail(I), mapping, table)

\* lines 95-101: POST /chat with the given message
ChatReceive(t, msg) ==
  /\ appPc = "serving"
  /\ req[t].pc = "idle"
  /\ LET user_input == Strip(msg)
     IN  req' = [req EXCEPT ![t] =
           IF user_input = <<>>
           THEN [IdleReq EXCEPT !.pc = "done", !.kind = "chat",
                                !.response = "Please enter a valid question."]
           ELSE [IdleReq EXCEPT !.pc = "encode", !.kind = "chat",
                                !.query = user_input, !.top_k = TopK]]
  /\ UNCHANGED <<appPc, index, df, id_mapping, chunkVars, buildVars>>

\* a direct call retrieve_docs(query, top_k)
CallRetrieve(t, query, k) ==
  /\ appPc = "serving"
  /\ req[t].pc = "idle"
  /\ req' = [req EXCEPT ![t] =
       [IdleReq EXCEPT !.pc = "encode", !.kind = "call",
                       !.query = query, !.top_k = k]]
  /\ UNCHANGED <<appPc, index, df, id_mapping, chunkVars, buildVars>>

\* lines 69-70: the embedding call succeeds; the vector is normalised
EncodeQuery(t) ==
  /\ req[t].pc = "encode"
  /\ req' = [req EXCEPT ![t].query_vec = Normalize(Embed(req[t].query)),
                        ![t].pc = "search"]
  /\ UNCHANGED <<appPc, index, df, id_mapping, chunkVars, buildVars>>

\* line 69: the embedding call raises.  Neither retrieve_docs nor chat has a
\* handler, so the exception leaves both; Flask answers 500.
EncodeFails(t) ==
  /\ req[t].pc = "encode"
  /\ req' = [req EXCEPT ![t].raised = "EmbeddingError",
                        ![t].pc = "done",
                        ![t].response =
                           IF req[t].kind = "chat" THEN "HTTP 500" ELSE "none"]
  /\ UNCHANGED <<appPc, index, df, id_mapping, chunkVars, buildVars>>

\* line 71
SearchIndex(t) ==
  /\ req[t].pc = "search"
  /\ req' = [req EXCEPT ![t].I = Search(index, req[t].query_vec, req[t].top_k),
                        ![t].pc = "resolve"]
  /\ UNCHANGED <<appPc, index, df, id_mapping, chunkVars, buildVars>>

\* a lookup that takes each entry it reads out of the shared mapping
ResolvePop(t) ==
  /\ req[t].pc = "resolve"
  /\ ~LookupRaises(req[t].I, id_mapping, df)
  /\ LET results == ResolveTexts(req[t].I, id_mapping, df)
         read == {ToString(req[t].I[j]) : j \in 1..Len(req[t].I)}
     IN  /\ req' = [req EXCEPT ![t].results = results,
                               ![t].context = Join(results, <<"\n", "\n">>),
                               ![t].pc = IF req[t].kind = "chat"
                                         THEN "answer" ELSE "done"]
         /\ id_mapping' = [s \in DOMAIN id_mapping \ read |-> id_mapping[s]]
  /\ UNCHANGED <<appPc, index, df, chunkVars, buildVars>>

\* lines 72-73: resolve the positions and join the texts; an exception of
\* the lookup leaves retrieve_docs and chat as in EncodeFails
Resolve(t) ==
  /\ req[t].pc = "resolve"
  /\ IF LookupRaises(req[t].I, id_mapping, df)
     THEN req' = [req EXCEPT ![t].raised = "LookupError",
                             ![t].pc = "done",
                             ![t].response =
                                IF req[t].kind = "chat" THEN "HTTP 500" ELSE "none"]
     ELSE LET results == ResolveTexts(req[t].I, id_mapping, df)
          IN  req' = [req EXCEPT ![t].results = results,
                                 ![t].context = Join(results, <<"\n", "\n">>),
                                 ![t].pc = IF req[t].kind = "chat"
                                           THEN "answer" ELSE "done"]
  /\ UNCHANGED <<appPc, index, df, id_mapping, chunkVars, buildVars>>

\* lines 102-106: build the prompt, query the model, answer with its reply
Answer(t, reply) ==
  /\ req[t].pc = "answer"
  /\ req' = [req EXCEPT ![t].response = reply, ![t].pc = "done"]
  /\ UNCHANGED <<appPc, index, df, id_mapping, chunkVars, buildVars>>

\* the request is over; the thread takes the next one
Finish(t) ==
  /\ req[t].pc = "done"
  /\ req' = [req EXCEPT ![t] = IdleReq]
  /\ UNCHANGED <<appPc, index, df, id_mapping, chunkVars, buildVars>>

\* chunk_text is not running in this specification
ChunkIdle ==
  /\ text = <<>>
  /\ chunk_size = 1
  /\ overlap = 0
  /\ sentences = <<>>
  /\ chunks = <<>>
  /\ start = 0
  /\ pc = "idle"

Init == ChunkIdle /\ BuildIdle /\ AppIdle

Next ==
  \/ \E chunkList \in ChunkLists : RunDataframeUtils(chunkList)
  \/ \E chunkList \in ChunkLists : RunEmbeddingIndex(chunkList)
  \/ StartApp
  \/ \E t \in Threads, msg \in Messages : ChatReceive(t, msg)
  \/ \E t \in Threads, query \in Queries, k \in TopKs : CallRetrieve(t, query, k)
  \/ \E t \in Threads : EncodeQuery(t)
  \/ \E t \in Threads : EncodeFails(t)
  \/ \E t \in Threads : SearchIndex(t)
  \/ \E t \in Threads : Resolve(t)
  \/ \E t \in Threads, reply \in Replies : Answer(t, reply)
  \/ \E t \in Threads : Finish(t)

Spec == Init /\ [][Next]_vars

\* "A. B. C. D. E."
ScenarioText ==
  <<"A", ".", " ", "B", ".", " ", "C", ".", " ", "D", ".", " ", "E", ".">>

Texts == SeqsUpTo(Alphabet, MaxLen) \cup {ScenarioText}

ChunkInit ==
  /\ BuildIdle
  /\ AppIdle
  /\ text \in Texts
  /\ chunk_size \in 1..MaxChunkSize
  /\ overlap \in 0..MaxOverlap
  /\ sentences = <<>>
  /\ chunks = <<>>
  /\ start = 0
  /\ pc = "call"

\* lines 24-27: split into sentences, chunks = [], start = 0
SplitSentences ==
  /\ pc = "call"
  /\ sentences' = ReSplit(text)
  /\ chunks' = <<>>
  /\ start' = 0
  /\ pc' = "loop"
  /\ UNCHANGED <<text, chunk_size, overlap, buildVars, appVars>>

\* lines 28-34: one iteration of the while loop
LoopIteration ==
  /\ pc = "loop"
  /\ LoopCond(start, sentences)
  /\ Len(chunks) < MaxEmit
  /\ start >= -MaxBack
  /\ LET end == start + chunk_size
         chunk == WindowText(sentences, start, end)
     IN  chunks' = IF chunk # <<>> THEN Append(chunks, chunk) ELSE chunks
  /\ start' = start + Advance(chunk_size, overlap)
  /\ UNCHANGED <<text, chunk_size, overlap, sentences, pc, buildVars, appVars>>

\* lines 28, 35: the loop condition fails and chunks is returned
ReturnChunks ==
  /\ pc = "loop"
  /\ ~LoopCond(start, sentences)
  /\ pc' = "done"
  /\ UNCHANGED <<text, chunk_size, overlap, sentences, chunks, start,
                 buildVars, appVars>>

ChunkNext ==
  \/ SplitSentences
  \/ LoopIteration
  \/ ReturnChunks

SpecChunk == ChunkInit /\ [][ChunkNext]_vars

\* ------------------------------------------------- claims on chunk_text
IsBlank(s) == Strip(s) = <<>>

\* C1: every iteration of the loop of chunk_text either rejects the
\* configuration with an error or moves the window start forward by at
\* least one sentence, also when overlap >= chunk_size.
C1_RejectOrAdvance ==
  [][(pc = "loop" /\ LoopCond(start, sentences))
       => (pc' = "error" \/ start' >= start + 1)]_vars

ChunkAB == <<"A", ".", " ", "B", ".">>
ChunkBC == <<"B", ".", " ", "C", ".">>
ChunkCD == <<"C", ".", " ", "D", ".">>
ChunkDE == <<"D", ".", " ", "E", ".">>
ChunkE == <<"E", ".">>

ScenarioReturned ==
  pc = "done" /\ text = ScenarioText /\ chunk_size = 2 /\ overlap = 1

\* C2 as stated: chunk_text("A. B. C. D. E.", 2, 1) returns exactly the four
\* chunks "A. B.", "B. C.", "C. D.", "D. E." and no further chunk.
C2_FourChunks ==
  ScenarioReturned => chunks = <<ChunkAB, ChunkBC, ChunkCD, ChunkDE>>

\* C2 amended: chunk_text("A. B. C. D. E.", 2, 1) returns the five chunks
\* "A. B.", "B. C.", "C. D.", "D. E.", "E.": the window starting at the last
\* sentence is emitted too.
C2_FiveChunks ==
  ScenarioReturned => chunks = <<ChunkAB, ChunkBC, ChunkCD, ChunkDE, ChunkE>>

C2_Witness == ScenarioReturned /\ Len(chunks) = 5

\* sentence i (1-based) lies in a window of chunk_size sentences whose text
\* is one of the returned chunks
Covered(i) ==
  \E s \in 0..(Len(sentences) - 1) :
    /\ s < i
    /\ i <= s + chunk_size
    /\ \E j \in 1..Len(chunks) :
         chunks[j] = Strip(Join(SubSeq(sentences, s + 1,
                                       Min(s + chunk_size, Len(sentences))),
                                <<" ">>))

\* C3 as stated: for a non-empty text and 0 <= overlap < chunk_size the
\* returned list is non-empty, holds no blank chunk, and every sentence of
\* the split lies in a returned chunk.
C3_NonEmptyText ==
  (pc = "done" /\ text # <<>> /\ overlap < chunk_size) =>
    /\ chunks # <<>>
    /\ \A j \in 1..Len(chunks) : ~IsBlank(chunks[j])
    /\ \A i \in 1..Len(sentences) : Covered(i)

\* C3 amended: for a text with at least one non-whitespace character and
\* 0 <= overlap < chunk_size the returned list is non-empty, holds no blank
\* chunk, and every non-blank sentence of the split lies in a returned chunk.
C3_NonBlankText ==
  (pc = "done" /\ ~IsBlank(text) /\ overlap < chunk_size) =>
    /\ chunks # <<>>
    /\ \A j \in 1..Len(chunks) : ~IsBlank(chunks[j])
    /\ \A i \in 1..Len(sentences) : ~IsBlank(sentences[i]) => Covered(i)

C3_Witness ==
  /\ pc = "done"
  /\ ~IsBlank(text)
  /\ overlap >= 1
  /\ overlap < chunk_size
  /\ Len(sentences) >= 3
  /\ Len(chunks) >= 2
  /\ \E i \in 1..Len(sentences) : IsBlank(sentences[i])

\* the k-th group of n consecutive sentences (the last may be shorter)
Group(k, n) == SubSeq(sentences, (k - 1) * n + 1, Min(k * n, Len(sentences)))

\* C4: with overlap = 0 the returned chunks are, in order, the texts of the
\* disjoint consecutive groups of chunk_size sentences (the last group may
\* be shorter); only a last group holding nothing but a blank sentence is
\* left out.
C4_Partition ==
  (pc = "done" /\ overlap = 0) =>
    LET n == chunk_size
        G == (Len(sentences) + n - 1) \div n
    IN  /\ Len(chunks) <= G
        /\ \A k \in 1..Len(chunks) :
             chunks[k] = Strip(Join(Group(k, n), <<" ">>))
        /\ \A k \in 1..G :
             /\ k < G => Len(Group(k, n)) = n
             /\ Len(Group(k, n)) \in 1..n
             /\ k > Len(chunks) =>
                  k = G /\ \A i \in 1..Len(Group(k, n)) : IsBlank(Group(k, n)[i])

C4_Witness ==
  /\ pc = "done"
  /\ overlap = 0
  /\ chunk_size = 2
  /\ Len(sentences) = 3
  /\ Len(chunks) = 2

\* ------------------------------------------- claims on build and serving
\* the request of thread t has come back from retrieve_docs with a result
Returned(t) ==
  req[t].pc \in {"answer", "done"} /\ req[t].top_k > 0 /\ req[t].raised = "none"

KeptPlaces(t) ==
  {j \in 1..Len(req[t].I) : ToString(req[t].I[j]) \in DOMAIN id_mapping}

\* C6: a position the search returned that is not in the loaded mapping is
\* skipped without failing the request: the lookups never raise, and the
\* result holds exactly the texts of the returned positions that are in the
\* mapping, in the order the search returned them.
C6_SkipAbsent ==
  \A t \in Threads :
    /\ req[t].raised # "LookupError"
    /\ Returned(t) =>
         /\ Len(req[t].results) = Cardinality(KeptPlaces(t))
         /\ \A j \in KeptPlaces(t) :
              req[t].results[Cardinality({i \in KeptPlaces(t) : i <= j})]
                = df[id_mapping[ToString(req[t].I[j])]]

C6_Witness ==
  \E t \in Threads :
    /\ Returned(t)
    /\ \E j \in 1..Len(req[t].I) :
         /\ req[t].I[j] >= 0
         /\ j \notin KeptPlaces(t)
         /\ j + 1 \in KeptPlaces(t)

\* C7: the service serves only when loading found the artifacts consistent:
\* the index holds as many vectors as the mapping has entries and every
\* mapped id is an id of the chunk table; so no lookup of a mapped id fails.
C7_LoadChecksIntegrity ==
  /\ appPc = "serving" =>
       /\ Len(index) = Cardinality(DOMAIN id_mapping)
       /\ \A s \in DOMAIN id_mapping : id_mapping[s] \in DOMAIN df
  /\ \A t \in Threads : req[t].raised # "LookupError"

\* C8: the files written from a chunk list of length n hold: a table with
\* the ids 0..n-1 whose row i is the i-th chunk, the identity mapping with
\* the keys "0".."n-1", and an index of n vectors whose position i is the
\* normalised embedding of the i-th chunk; when all were built from the same
\* list, every key of the mapping is a position of the index and every
\* mapped value an id of the table.
C8_BuiltArtifacts ==
  /\ csvFile # None =>
       LET n == Len(dfChunks)
           rows == csvFile[1]
           m == mapFile[1]
       IN  /\ Len(rows) = n
           /\ \A i \in 0..(n - 1) :
                /\ rows[i + 1] = [id |-> i, text |-> dfChunks[i + 1]]
                /\ ToString(i) \in DOMAIN m
                /\ m[ToString(i)] = i
           /\ Cardinality(DOMAIN m) = n
  /\ faissFile # None =>
       /\ Len(faissFile[1]) = Len(idxChunks)
       /\ \A i \in 0..(Len(idxChunks) - 1) :
            faissFile[1][i + 1] = Normalize(Embed(idxChunks[i + 1]))
  /\ (csvFile # None /\ faissFile # None /\ dfChunks = idxChunks) =>
       \A s \in DOMAIN mapFile[1] :
         /\ \E i \in 0..(Len(faissFile[1]) - 1) : s = ToString(i)
         /\ \E k \in 1..Len(csvFile[1]) : csvFile[1][k].id = mapFile[1][s]

C8_Witness ==
  /\ csvFile # None
  /\ faissFile # None
  /\ dfChunks = idxChunks
  /\ Len(dfChunks) = 2
  /\ dfChunks[1] # dfChunks[2]

\* retrieve_docs(query, k) run alone on the artifacts as they were loaded
RetrieveAlone(query, k) ==
  ResolveTexts(Search(faissFile[1], Normalize(Embed(query)), k),
               mapFile[1], ReadCsv(csvFile[1]))

\* C9: while the service runs, the loaded index, table and mapping stay as
\* they were loaded, and every call of retrieve_docs, however it is
\* interleaved with other calls, returns what it returns when run alone.
C9_SameAsAlone ==
  appPc = "serving" =>
    /\ index = faissFile[1]
    /\ df = ReadCsv(csvFile[1])
    /\ id_mapping = mapFile[1]
    /\ \A t \in Threads :
         Returned(t) =>
           /\ req[t].results = RetrieveAlone(req[t].query, req[t].top_k)
           /\ req[t].context = Join(req[t].results, <<"\n", "\n">>)

C9_Witness ==
  \E t \in Threads, u \in Threads :
    /\ t # u
    /\ Returned(t)
    /\ Len(req[t].results) = 2
    /\ req[u].pc = "resolve"
    /\ req[u].query = req[t].query

\* C10: a failed embedding call does not leave retrieve_docs as an
\* exception, and POST /chat still answers with an answer rather than with
\* an unhandled exception.
C10_EmbeddingFailureHandled ==
  \A t \in Threads :
    /\ req[t].raised # "EmbeddingError"
    /\ req[t].response # "HTTP 500"

====
